---------------------------- MODULE Spec2Model ----------------------------
(***************************************************************************)
(* Model of the SaaS backend (src/main.py, src/schemas.py): two document   *)
(* collections, "client" and "invoice", behind four route handlers.        *)
(*                                                                         *)
(* Python values are tagged records: [t |-> "None"], [t |-> "str", v |-> a *)
(* sequence of one-character strings], [t |-> "num"], [t |-> "list"],      *)
(* [t |-> "ObjectId", v |-> 24 hex digit values], [t |-> "datetime"].      *)
(***************************************************************************)
EXTENDS Integers, Sequences, FiniteSets, TLC

(* ------------------------------ bounds -------------------------------- *)

\* Most documents a behaviour adds to the store it starts from.
MaxDocs == 3

(* ----------------------- Python values and text ----------------------- *)

None == [t |-> "None"]

Str(s) == [t |-> "str", v |-> s]

Num(n) == [t |-> "num", v |-> n]

List(xs) == [t |-> "list", v |-> xs]

Datetime(n) == [t |-> "datetime", v |-> n]

IsStr(x) == x.t = "str"

\* Python truthiness of an Optional[str]: None and "" are falsy.
Truthy(x) == IsStr(x) /\ Len(x.v) > 0

\* The letters whose case the model's texts exercise.
LowerOf ==
  [c \in {"A", "B", "C", "D", "E", "F"} |->
     CASE c = "A" -> "a" [] c = "B" -> "b" [] c = "C" -> "c"
       [] c = "D" -> "d" [] c = "E" -> "e" [] c = "F" -> "f"]

\* str.lower() on one character.
Lower(c) == IF c \in DOMAIN LowerOf THEN LowerOf[c] ELSE c

HexDigits ==
  <<"0", "1", "2", "3", "4", "5", "6", "7", "8", "9", "a", "b", "c", "d", "e", "f">>

\* The value of each hexadecimal digit, in either case.
HexOf ==
  [c \in {HexDigits[i] : i \in 1..16} \cup DOMAIN LowerOf |->
     (CHOOSE i \in 1..16 : HexDigits[i] = Lower(c)) - 1]

IsHex(c) == c \in DOMAIN HexOf

HexVal(c) == HexOf[c]

\* Length of the hexadecimal text of an ObjectId.
OidLen == 24

InvalidId == [t |-> "InvalidId"]

\* bson.ObjectId(text): a 24-character hexadecimal string of either case
\* parses to the 12-byte value; a string of another length, or with a
\* character that is neither a hexadecimal digit nor white space, raises
\* InvalidId. (No text used here holds white space.)
ObjectId(s) ==
  IF IsStr(s) /\ Len(s.v) = OidLen /\ \A i \in 1..OidLen : IsHex(s.v[i])
  THEN [t |-> "ObjectId", v |-> [i \in 1..OidLen |-> HexVal(s.v[i])]]
  ELSE InvalidId

\* str(ObjectId): lower-case hexadecimal.
OidStr(o) == Str([i \in 1..OidLen |-> HexDigits[o.v[i] + 1]])

Digits == <<"0", "1", "2", "3", "4", "5", "6", "7", "8", "9">>

RECURSIVE Decimal(_)
Decimal(n) ==
  IF n < 10 THEN <<Digits[n + 1]>>
  ELSE Decimal(n \div 10) \o <<Digits[(n % 10) + 1]>>

\* datetime.isoformat(): the text of an instant, instants being counted.
IsoFormat(d) == Str(<<"T">> \o Decimal(d.v))

(* --------------------------- serialization ---------------------------- *)

SerializeValue(x) ==
  IF x.t = "ObjectId" THEN OidStr(x)
  ELSE IF x.t = "datetime" THEN IsoFormat(x)
  ELSE x

_serialize_doc(doc) == [k \in DOMAIN doc |-> SerializeValue(doc[k])]

(* ------------------------------ schemas ------------------------------- *)

ValidationError == [t |-> "ValidationError"]

\* A request body is a function from the field names it carries to values.
Has(raw, k) == k \in DOMAIN raw

\* Optional[str] = None: omitted and null give None, a string is kept.
OptStr(raw, k) == IF Has(raw, k) THEN raw[k] ELSE None

OptStrOk(raw, k) == ~Has(raw, k) \/ raw[k].t \in {"None", "str"}

NameMinLen == 2

NameMaxLen == 120

\* Mutant: min_length left out.
NameOk_noMin(raw) ==
  /\ Has(raw, "name")
  /\ IsStr(raw.name)
  /\ Len(raw.name.v) <= NameMaxLen

\* name: str, required, min_length=2, max_length=120.
NameOk(raw) ==
  /\ Has(raw, "name")
  /\ IsStr(raw.name)
  /\ Len(raw.name.v) >= NameMinLen
  /\ Len(raw.name.v) <= NameMaxLen

AtSigns(s) == {i \in 1..Len(s) : s[i] = "@"}

AtPos(s) == CHOOSE i \in AtSigns(s) : TRUE

\* EmailStr accepts local@domain with a non-empty local part and a dotted
\* domain whose labels are non-empty.
IsEmail(s) ==
  /\ Cardinality(AtSigns(s)) = 1
  /\ AtPos(s) > 1
  /\ AtPos(s) + 1 < Len(s)
  /\ s[AtPos(s) + 1] # "."
  /\ s[Len(s)] # "."
  /\ \E i \in (AtPos(s) + 2)..(Len(s) - 1) : s[i] = "."
  /\ \A i \in (AtPos(s) + 1)..(Len(s) - 1) : ~(s[i] = "." /\ s[i + 1] = ".")

\* EmailStr returns the normalized address; for the plain addresses used
\* here that is the address with its domain in lower case.
NormalizeEmail(s) ==
  [i \in 1..Len(s) |-> IF i > AtPos(s) THEN Lower(s[i]) ELSE s[i]]

EmailOk(raw) ==
  \/ ~Has(raw, "email")
  \/ raw.email = None
  \/ IsStr(raw.email) /\ IsEmail(raw.email.v)

EmailOf(raw) ==
  IF Has(raw, "email") /\ IsStr(raw.email)
  THEN Str(NormalizeEmail(raw.email.v))
  ELSE None

active == <<"a", "c", "t", "i", "v", "e">>

inactive == <<"i", "n", "a", "c", "t", "i", "v", "e">>

prospect == <<"p", "r", "o", "s", "p", "e", "c", "t">>

ClientStatuses == {Str(active), Str(inactive), Str(prospect)}

\* Mutant: another lifecycle status as the default.
ClientStatusOf_prospect(raw) ==
  IF Has(raw, "status") THEN raw.status ELSE Str(prospect)

\* status: Literal[...] = Field("active").
ClientStatusOf(raw) == IF Has(raw, "status") THEN raw.status ELSE Str(active)

\* class Client(BaseModel): the validated model, or ValidationError.
Client(raw) ==
  IF /\ NameOk(raw)
     /\ EmailOk(raw)
     /\ \A k \in {"phone", "company", "address", "notes"} : OptStrOk(raw, k)
     /\ (Has(raw, "status") => raw.status \in ClientStatuses)
  THEN [name    |-> raw.name,
        email   |-> EmailOf(raw),
        phone   |-> OptStr(raw, "phone"),
        company |-> OptStr(raw, "company"),
        address |-> OptStr(raw, "address"),
        notes   |-> OptStr(raw, "notes"),
        status  |-> ClientStatusOf(raw)]
  ELSE ValidationError

DescMinLen == 1

DescMaxLen == 200

\* class InvoiceItem(BaseModel): description 1..200 characters, quantity >= 0
\* (default 1), unit_price >= 0 (required).
ItemOk(it) ==
  /\ Has(it, "description")
  /\ IsStr(it.description)
  /\ Len(it.description.v) >= DescMinLen
  /\ Len(it.description.v) <= DescMaxLen
  /\ (Has(it, "quantity") => it.quantity.t = "num" /\ it.quantity.v >= 0)
  /\ Has(it, "unit_price")
  /\ it.unit_price.t = "num"
  /\ it.unit_price.v >= 0

InvoiceItem(it) ==
  [description |-> it.description,
   quantity    |-> IF Has(it, "quantity") THEN it.quantity ELSE Num(1),
   unit_price  |-> it.unit_price]

ItemsOk(raw) ==
  \/ ~Has(raw, "items")
  \/ /\ raw.items.t = "list"
     /\ \A i \in 1..Len(raw.items.v) : ItemOk(raw.items.v[i])

ItemsOf(raw) ==
  IF Has(raw, "items")
  THEN List([i \in 1..Len(raw.items.v) |-> InvoiceItem(raw.items.v[i])])
  ELSE List(<<>>)

draft == <<"d", "r", "a", "f", "t">>

sent == <<"s", "e", "n", "t">>

paid == <<"p", "a", "i", "d">>

overdue == <<"o", "v", "e", "r", "d", "u", "e">>

cancelled == <<"c", "a", "n", "c", "e", "l", "l", "e", "d">>

InvoiceStatuses == {Str(draft), Str(sent), Str(paid), Str(overdue), Str(cancelled)}

Currencies ==
  {Str(<<"U", "S", "D">>), Str(<<"E", "U", "R">>), Str(<<"G", "B", "P">>),
   Str(<<"I", "N", "R">>), Str(<<"J", "P", "Y">>), Str(<<"A", "U", "D">>),
   Str(<<"C", "A", "D">>)}

\* class Invoice(BaseModel): the validated model, or ValidationError.
Invoice(raw) ==
  IF /\ \A k \in {"invoice_number", "client_id", "issue_date", "due_date",
                  "notes", "terms"} : OptStrOk(raw, k)
     /\ ItemsOk(raw)
     /\ (Has(raw, "currency") => raw.currency \in Currencies)
     /\ (Has(raw, "status") => raw.status \in InvoiceStatuses)
  THEN [invoice_number |-> OptStr(raw, "invoice_number"),
        client_id      |-> OptStr(raw, "client_id"),
        issue_date     |-> OptStr(raw, "issue_date"),
        due_date       |-> OptStr(raw, "due_date"),
        items          |-> ItemsOf(raw),
        currency       |-> IF Has(raw, "currency") THEN raw.currency
                           ELSE Str(<<"U", "S", "D">>),
        status         |-> IF Has(raw, "status") THEN raw.status ELSE Str(draft),
        notes          |-> OptStr(raw, "notes"),
        terms          |-> OptStr(raw, "terms")]
  ELSE ValidationError

(* ---------------------------- persistence ----------------------------- *)

\* The identifier the store assigns to the n-th inserted document.
MkOid(n) ==
  [t |-> "ObjectId",
   v |-> [i \in 1..OidLen |->
            IF i = OidLen THEN n % 16
            ELSE IF i = OidLen - 1 THEN (n \div 16) % 16
            ELSE 10]]

\* create_document(collection, model): the document stored for the n-th
\* insert, the model's fields with the assigned identifier and the instant
\* of the insert.
create_document(model, n) ==
  [k \in DOMAIN model \cup {"_id", "created_at"} |->
     IF k = "_id" THEN MkOid(n)
     ELSE IF k = "created_at" THEN Datetime(n)
     ELSE model[k]]

\* An exact-match filter holds of a document when every field it names has
\* the required value.
Matches(doc, filt) == \A k \in DOMAIN filt : doc[k] = filt[k]

RECURSIVE Select(_, _)
Select(coll, filt) ==
  IF coll = <<>> THEN <<>>
  ELSE IF Matches(Head(coll), filt)
       THEN <<Head(coll)>> \o Select(Tail(coll), filt)
       ELSE Select(Tail(coll), filt)

Min(a, b) == IF a < b THEN a ELSE b

\* get_documents(collection, filter, limit): the matching documents in
\* natural (insertion) order, capped at limit.
get_documents(coll, filt, limit) ==
  SubSeq(Select(coll, filt), 1, Min(limit, Len(Select(coll, filt))))

\* collection.find_one({"_id": oid}): the document with that identifier,
\* or None.
find_one(coll, oid) ==
  IF \E i \in 1..Len(coll) : coll[i]._id = oid
  THEN coll[CHOOSE i \in 1..Len(coll) : coll[i]._id = oid]
  ELSE None

(* ------------------------------- state -------------------------------- *)

VARIABLES
  db,        \* collection name -> the stored documents, in insertion order
  workers,   \* request worker -> the position of the handler it runs
  resp,      \* the response being sent, NoResp when none is
  posted,    \* the bodies of the 201 responses sent so far
  lastRead   \* the last GET /invoices?status=draft response sent since the
             \* last insert, NoRead when there is none

vars == <<db, workers, resp, posted, lastRead>>

\* _collection_name(model_cls): the model class name in lower case.
_collection_name(model_cls) ==
  IF model_cls = "Client" THEN "client" ELSE "invoice"

\* The requests in progress at once: two, so that any step of one handler
\* can fall between two steps of another.
Workers == {"w1", "w2"}

Idle == [pc |-> "idle"]

NoResp == [op |-> "none"]

NoRead == [op |-> "none"]

\* Documents inserted so far: no handler removes one.
Inserted == Len(db.client) + Len(db.invoice)

\* Invoices that passed the reference check and are not stored yet.
Pending == Cardinality({w \in Workers : workers[w].pc = "invoice_insert"})

\* The bound of the model: whether one more document may be accepted.
Room == Inserted + Pending < MaxDocs

Insert(name, doc) == [db EXCEPT ![name] = Append(@, doc)]

DefaultLimit == 50

LimitMin == 1

LimitMax == 200

\* limit: int = Query(50, ge=1, le=200).
LimitOk(limit) ==
  limit = None \/ (limit.t = "num" /\ limit.v >= LimitMin /\ limit.v <= LimitMax)

\* Mutant: the largest limit as the default.
LimitOf_max(limit) == IF limit = None THEN LimitMax ELSE limit.v

LimitOf(limit) == IF limit = None THEN DefaultLimit ELSE limit.v

\* GET /invoices?status=draft.
DraftQuery == [status |-> Str(draft), client_id |-> None, limit |-> None]

\* A handler's return value or error becomes the response being sent.
Respond(r) ==
  /\ resp' = r
  /\ UNCHANGED <<posted, lastRead>>

(* ------------------------------ handlers ------------------------------ *)

\* GET /clients.
list_clients(q) ==
  /\ resp = NoResp
  /\ Respond(
       IF ~LimitOk(q.limit)
       THEN [op |-> "GET /clients", req |-> q, status |-> 422]
       ELSE [op |-> "GET /clients", req |-> q, status |-> 200,
             body |-> LET docs == get_documents(db[_collection_name("Client")],
                                                <<>>, LimitOf(q.limit))
                      IN  [i \in 1..Len(docs) |-> _serialize_doc(docs[i])]])
  /\ UNCHANGED <<db, workers>>

\* Mutant: "elif client_id", the second constraint lost when both are given.
InvoiceFilter_elif(q) ==
  [k \in (IF Truthy(q.status) THEN {"status"}
          ELSE IF Truthy(q.client_id) THEN {"client_id"} ELSE {}) |-> q[k]]

\* The filter list_invoices builds: a parameter constrains only when truthy.
InvoiceFilter(q) ==
  [k \in (IF Truthy(q.status) THEN {"status"} ELSE {})
         \cup (IF Truthy(q.client_id) THEN {"client_id"} ELSE {}) |-> q[k]]

\* Mutant: a listing that takes what it returns out of the collection.
list_invoices_consuming(q) ==
  /\ resp = NoResp
  /\ LimitOk(q.limit)
  /\ LET docs == get_documents(db[_collection_name("Invoice")],
                               InvoiceFilter(q), LimitOf(q.limit))
     IN  /\ Respond([op |-> "GET /invoices", req |-> q, status |-> 200,
                      body |-> [i \in 1..Len(docs) |-> _serialize_doc(docs[i])]])
         /\ db' = [db EXCEPT !.invoice =
                     SelectSeq(@, LAMBDA d : \A i \in 1..Len(docs) : docs[i] # d)]
  /\ UNCHANGED workers

\* GET /invoices.
list_invoices(q) ==
  /\ resp = NoResp
  /\ Respond(
       IF ~LimitOk(q.limit)
       THEN [op |-> "GET /invoices", req |-> q, status |-> 422]
       ELSE [op |-> "GET /invoices", req |-> q, status |-> 200,
             body |-> LET docs == get_documents(db[_collection_name("Invoice")],
                                                InvoiceFilter(q), LimitOf(q.limit))
                      IN  [i \in 1..Len(docs) |-> _serialize_doc(docs[i])]])
  /\ UNCHANGED <<db, workers>>

\* POST /clients up to the insert: validation, then create_document.
create_client(w, raw) ==
  /\ resp = NoResp
  /\ workers[w] = Idle
  /\ IF Client(raw) = ValidationError
     THEN /\ Respond([op |-> "POST /clients", req |-> raw, status |-> 422])
          /\ UNCHANGED <<db, workers>>
     ELSE /\ Room
          /\ db' = Insert(_collection_name("Client"),
                          create_document(Client(raw), Inserted + 1))
          /\ workers' = [workers EXCEPT ![w] =
               [pc |-> "client_fetch", req |-> raw,
                inserted_id |-> OidStr(MkOid(Inserted + 1))]]
          /\ lastRead' = NoRead
          /\ UNCHANGED <<resp, posted>>

\* Mutant: the fallback returned although the document was found.
Fetched_fallback(doc, inserted_id) == [_id |-> inserted_id]

\* "_serialize_doc(doc) if doc else {"_id": inserted_id}".
Fetched(doc, inserted_id) ==
  IF doc # None THEN _serialize_doc(doc) ELSE [_id |-> inserted_id]

\* POST /clients from the re-fetch on: find_one, serialize, respond 201.
create_client_fetch(w) ==
  /\ resp = NoResp
  /\ workers[w].pc = "client_fetch"
  /\ LET doc == find_one(db[_collection_name("Client")],
                         ObjectId(workers[w].inserted_id))
     IN  Respond([op |-> "POST /clients", req |-> workers[w].req, status |-> 201,
                  body |-> Fetched(doc, workers[w].inserted_id)])
  /\ workers' = [workers EXCEPT ![w] = Idle]
  /\ UNCHANGED db

\* len(payload.client_id) == 24 under "if payload.client_id": whether the
\* client collection is searched.
NeedsLookup(client_id) == Truthy(client_id) /\ Len(client_id.v) = OidLen

\* Mutant: only a client_id of identifier length can be in error.
ReferenceError_lenient(client_id, client) ==
  NeedsLookup(client_id) /\ client = None

\* Mutant: the reference check left out.
ReferenceError_never(client_id, client) == FALSE

\* Mutant: the test of client not nested under "if payload.client_id".
ReferenceError_strict(client_id, client) == client = None

\* "if payload.client_id: ... if client is None: raise HTTPException(400)".
ReferenceError(client_id, client) == Truthy(client_id) /\ client = None

\* POST /invoices up to the insert: validation, then the reference check.
create_invoice(w, raw) ==
  /\ resp = NoResp
  /\ workers[w] = Idle
  /\ IF Invoice(raw) = ValidationError
     THEN /\ Respond([op |-> "POST /invoices", req |-> raw, status |-> 422,
                      looked |-> FALSE])
          /\ UNCHANGED <<db, workers>>
     ELSE LET client_id == Invoice(raw).client_id
              lookup    == NeedsLookup(client_id)
              client    == IF lookup
                           THEN find_one(db[_collection_name("Client")],
                                         ObjectId(client_id))
                           ELSE None
          IN  IF lookup /\ ObjectId(client_id) = InvalidId
              THEN /\ Respond([op |-> "POST /invoices", req |-> raw,
                               status |-> 500, looked |-> FALSE])
                   /\ UNCHANGED <<db, workers>>
              ELSE IF ReferenceError(client_id, client)
              THEN /\ Respond([op |-> "POST /invoices", req |-> raw,
                               status |-> 400, looked |-> lookup])
                   /\ UNCHANGED <<db, workers>>
              ELSE /\ Room
                   /\ workers' = [workers EXCEPT ![w] =
                        [pc |-> "invoice_insert", req |-> raw, looked |-> lookup]]
                   /\ UNCHANGED <<db, resp, posted, lastRead>>

\* POST /invoices, the insert: create_document.
create_invoice_insert(w) ==
  /\ resp = NoResp
  /\ workers[w].pc = "invoice_insert"
  /\ db' = Insert(_collection_name("Invoice"),
                  create_document(Invoice(workers[w].req), Inserted + 1))
  /\ workers' = [workers EXCEPT ![w] =
       [pc |-> "invoice_fetch", req |-> workers[w].req,
        looked |-> workers[w].looked,
        inserted_id |-> OidStr(MkOid(Inserted + 1))]]
  /\ lastRead' = NoRead
  /\ UNCHANGED <<resp, posted>>

\* POST /invoices from the re-fetch on: find_one, serialize, respond 201.
create_invoice_fetch(w) ==
  /\ resp = NoResp
  /\ workers[w].pc = "invoice_fetch"
  /\ LET doc == find_one(db[_collection_name("Invoice")],
                         ObjectId(workers[w].inserted_id))
     IN  Respond([op |-> "POST /invoices", req |-> workers[w].req, status |-> 201,
                  looked |-> workers[w].looked,
                  body |-> Fetched(doc, workers[w].inserted_id)])
  /\ workers' = [workers EXCEPT ![w] = Idle]
  /\ UNCHANGED db

\* The response leaves the server; the client now holds it.
send_response ==
  /\ resp # NoResp
  /\ resp' = NoResp
  /\ posted' = IF resp.status = 201 THEN posted \cup {resp.body} ELSE posted
  /\ lastRead' = IF resp.status = 200 /\ resp.req = DraftQuery
                 THEN resp ELSE lastRead
  /\ UNCHANGED <<db, workers>>

(* ------------------------------- inputs ------------------------------- *)

Acme == Str(<<"A", "c", "m", "e">>)

\* A name one character longer than the schema allows.
LongName == Str([i \in 1..(NameMaxLen + 1) |-> "a"])

ClientBodies ==
  { [name |-> Acme],
    [name |-> Str(<<"A", "c">>), email |-> Str(<<"A", "@", "B", ".", "C", "D">>),
     phone |-> Str(<<"1">>), status |-> Str(inactive)],
    [status |-> Str(active)],
    [name |-> None],
    [name |-> Str(<<>>)],
    [name |-> Str(<<"A">>)],
    [name |-> LongName],
    [name |-> Acme, email |-> Str(<<"A", "B">>)],
    [name |-> Acme, status |-> Str(draft)] }

\* Every identifier the store can have assigned within the bounds.
Oids == {MkOid(n) : n \in 1..MaxDocs}

\* str.upper() of an identifier's text.
Upper(s) ==
  Str([i \in 1..Len(s.v) |->
         IF \E c \in DOMAIN LowerOf : LowerOf[c] = s.v[i]
         THEN CHOOSE c \in DOMAIN LowerOf : LowerOf[c] = s.v[i]
         ELSE s.v[i]])

NotHex == Str([i \in 1..OidLen |-> "z"])

InvoiceBodies ==
  { [status |-> Str(paid),
     items |-> List(<<[description |-> Str(<<"x">>), unit_price |-> Num(5)]>>)],
    [client_id |-> Str(<<>>)],
    [client_id |-> Str(<<"a", "b", "c">>)],
    [client_id |-> Str([i \in 1..(OidLen + 1) |-> "a"])],
    [client_id |-> NotHex],
    [status |-> Str(active)],
    [items |-> List(<<[description |-> Str(<<>>), unit_price |-> Num(5)]>>)],
    [items |-> List(<<[description |-> Str(<<"x">>), quantity |-> Num(-1),
                       unit_price |-> Num(5)]>>)] }
  \cup {[client_id |-> OidStr(o)] : o \in Oids}
  \cup {[client_id |-> Upper(OidStr(MkOid(1))), status |-> Str(paid)]}

Limits ==
  {None, Num(LimitMin - 1), Num(LimitMin), Num(2), Num(DefaultLimit + 1),
   Num(LimitMax), Num(LimitMax + 1)}

ClientQueries == {[limit |-> l] : l \in Limits}

InvoiceQueries ==
  { [status |-> None, client_id |-> None, limit |-> None],
    [status |-> Str(<<>>), client_id |-> Str(<<>>), limit |-> Num(2)],
    DraftQuery,
    [status |-> Str(draft), client_id |-> None, limit |-> Num(LimitMax)],
    [status |-> Str(paid), client_id |-> None, limit |-> Num(LimitMin)],
    [status |-> None, client_id |-> None, limit |-> Num(LimitMin - 1)],
    [status |-> None, client_id |-> None, limit |-> Num(LimitMax + 1)],
    [status |-> None, client_id |-> OidStr(MkOid(1)), limit |-> None],
    [status |-> Str(draft), client_id |-> OidStr(MkOid(1)),
     limit |-> Num(LimitMin)],
    [status |-> Str(paid), client_id |-> Upper(OidStr(MkOid(1))),
     limit |-> None] }

\* A store holding one document more than the default limit in each
\* collection: the state after that many accepted POST requests.
Filled ==
  [client  |-> [n \in 1..(DefaultLimit + 1) |->
                  create_document(Client([name |-> Acme]), n)],
   invoice |-> [n \in 1..(DefaultLimit + 1) |->
                  create_document(Invoice([client_id |-> None]),
                                  DefaultLimit + 1 + n)]]

(* ---------------------------- specification --------------------------- *)

Init ==
  /\ db \in {[client |-> <<>>, invoice |-> <<>>], Filled}
  /\ workers = [w \in Workers |-> Idle]
  /\ resp = NoResp
  /\ posted = {}
  /\ lastRead = NoRead

Next ==
  \/ \E q \in ClientQueries : list_clients(q)
  \/ \E q \in InvoiceQueries : list_invoices(q)
  \/ \E w \in Workers, raw \in ClientBodies : create_client(w, raw)
  \/ \E w \in Workers : create_client_fetch(w)
  \/ \E w \in Workers, raw \in InvoiceBodies : create_invoice(w, raw)
  \/ \E w \in Workers : create_invoice_insert(w)
  \/ \E w \in Workers : create_invoice_fetch(w)
  \/ send_response

Spec == Init /\ [][Next]_vars

(* ------------------------------- claims ------------------------------- *)

Listings == {"GET /clients", "GET /invoices"}

\* The step sends a response to a request of kind op.
Sends(op) == resp' # resp /\ resp'.op = op

ValidInvoice(raw) == Invoice(raw) # ValidationError

ValidClient(raw) == Client(raw) # ValidationError

\* A text that is non-empty and not of identifier length.
WrongLengthText(x) == IsStr(x) /\ Len(x.v) > 0 /\ Len(x.v) # OidLen

WrongLength(raw) == Has(raw, "client_id") /\ WrongLengthText(raw.client_id)

\* The handlers between the reference check and the response.
InvoicePcs == {"invoice_insert", "invoice_fetch"}

\* C1, as claimed: a valid POST /invoices whose client_id is non-empty and
\* not 24 characters long is answered without error, the invoice inserted.
C1_WrongLengthAccepted ==
  (resp.op = "POST /invoices" /\ ValidInvoice(resp.req) /\ WrongLength(resp.req))
    => resp.status = 201

\* C1, amended: a valid POST /invoices whose client_id is non-empty and not
\* 24 characters long is answered 400 without a lookup in the client
\* collection and without a change of the store, whatever clients are
\* stored; no such request passes the reference check and no such invoice
\* is ever stored.
C1_WrongLengthRejected ==
  /\ [](/\ \A w \in Workers :
             workers[w].pc \in InvoicePcs => ~WrongLength(workers[w].req)
        /\ \A i \in 1..Len(db.invoice) : ~WrongLengthText(db.invoice[i].client_id))
  /\ [][(Sends("POST /invoices") /\ ValidInvoice(resp'.req)
           /\ WrongLength(resp'.req))
          => (resp'.status = 400 /\ ~resp'.looked /\ db' = db)]_vars

\* C1, witness: such a request is being refused while a client is stored.
C1_Witness ==
  /\ resp.op = "POST /invoices"
  /\ WrongLength(resp.req)
  /\ resp.status = 400
  /\ Len(db.client) > 0

\* The texts of the identifiers of the clients of a collection.
IdsOf(clients) == {OidStr(clients[i]._id) : i \in 1..Len(clients)}

\* A client_id of identifier length that is the identifier of none of them.
Unmatched(raw, clients) ==
  /\ Has(raw, "client_id")
  /\ IsStr(raw.client_id)
  /\ Len(raw.client_id.v) = OidLen
  /\ raw.client_id \notin IdsOf(clients)

\* C2, as claimed: every valid POST /invoices whose client_id is 24
\* characters long and is the identifier of no stored client is answered 400
\* and leaves the invoice collection as it was.
C2_UnmatchedRejected ==
  [][(Sends("POST /invoices") /\ ValidInvoice(resp'.req)
        /\ Unmatched(resp'.req, db'.client))
       => (resp'.status = 400 /\ db'.invoice = db.invoice)]_vars

\* A client body without a name, or with a name of fewer than 2 characters.
NameBad(raw) ==
  \/ ~Has(raw, "name")
  \/ IsStr(raw.name) /\ Len(raw.name.v) < NameMinLen

\* C3: a POST /clients whose body has no name, or a name shorter than 2
\* characters, is answered 422 with the store unchanged; it never reaches
\* the insert, no stored client has such a name, and no GET /clients
\* response holds a record with such a name.
C3_BadNameRejected ==
  /\ [](/\ \A w \in Workers :
             workers[w].pc = "client_fetch" => ~NameBad(workers[w].req)
        /\ \A i \in 1..Len(db.client) : ~NameBad(db.client[i])
        /\ (resp.op = "GET /clients" /\ resp.status = 200)
             => \A i \in 1..Len(resp.body) : ~NameBad(resp.body[i]))
  /\ [][(Sends("POST /clients") /\ NameBad(resp'.req))
          => (resp'.status = 422 /\ db' = db)]_vars

\* C3, witness: a body with a one-character name is being refused while a
\* client is stored.
C3_Witness ==
  /\ resp.op = "POST /clients"
  /\ resp.status = 422
  /\ Has(resp.req, "name")
  /\ NameBad(resp.req)
  /\ Len(db.client) > 0

\* What a client body gives for a field: its value, or the schema's default.
GivenClient(raw, k) ==
  IF Has(raw, k) THEN raw[k]
  ELSE IF k = "status" THEN Str(active)
  ELSE None

ClientFields == {"name", "email", "phone", "company", "address", "notes", "status"}

\* A text with everything after its first "@" in lower case.
DomainLowered(x) ==
  IF IsStr(x)
  THEN Str([i \in 1..Len(x.v) |->
              IF \E j \in 1..(i - 1) : x.v[j] = "@" THEN Lower(x.v[i])
              ELSE x.v[i]])
  ELSE x

\* The documents of a collection whose identifier has the text id.
WithId(coll, id) == {i \in 1..Len(coll) : OidStr(coll[i]._id) = id}

\* The step appends exactly one document to collection name and changes no
\* other document.
AddsOne(name) ==
  /\ Len(db'[name]) = Len(db[name]) + 1
  /\ SubSeq(db'[name], 1, Len(db[name])) = db[name]
  /\ \A other \in DOMAIN db \ {name} : db'[other] = db[other]

\* C4, as claimed: every valid POST /clients is answered 201 with a record
\* whose identifier is non-empty and whose other fields equal the input,
\* omitted fields having their defaults.
C4_FieldsEqualInput ==
  (resp.op = "POST /clients" /\ ValidClient(resp.req))
    => /\ resp.status = 201
       /\ IsStr(resp.body._id) /\ Len(resp.body._id.v) > 0
       /\ \A k \in ClientFields : resp.body[k] = GivenClient(resp.req, k)

\* C4, amended: every valid POST /clients adds exactly one record to the
\* client collection and is answered 201 with that record: its identifier
\* is non-empty, email is the normalized input (the input with its domain
\* part in lower case), and every other field equals the input, omitted
\* fields having their defaults (status active, the others null).
C4_CreatedClientEchoesInput ==
  /\ []((resp.op = "POST /clients" /\ ValidClient(resp.req))
          => /\ resp.status = 201
             /\ IsStr(resp.body._id) /\ Len(resp.body._id.v) > 0
             /\ Cardinality(WithId(db.client, resp.body._id)) = 1
             /\ resp.body.email = DomainLowered(GivenClient(resp.req, "email"))
             /\ \A k \in ClientFields \ {"email"} :
                  resp.body[k] = GivenClient(resp.req, k))
  /\ [][\A w \in Workers :
          /\ (workers[w] = Idle /\ workers'[w].pc = "client_fetch")
               => (ValidClient(workers'[w].req) /\ AddsOne("client"))
          /\ (workers[w].pc = "client_fetch" /\ workers'[w] = Idle)
               => db' = db]_vars

\* C4, witness: a body carrying only a name is being answered 201, after a
\* body with an email address was.
C4_Witness ==
  /\ resp.op = "POST /clients"
  /\ resp.status = 201
  /\ DOMAIN resp.req = {"name"}
  /\ \E p \in posted : p._id # resp.body._id /\ p.email # None

\* C5: a valid POST /invoices whose body carries no client_id is answered
\* 201 with the one invoice it inserted, without a lookup in the client
\* collection, whatever clients are stored.
C5_OmittedClientIdAccepted ==
  /\ [](/\ (resp.op = "POST /invoices" /\ ValidInvoice(resp.req)
              /\ ~Has(resp.req, "client_id"))
             => /\ resp.status = 201
                /\ ~resp.looked
                /\ resp.body.client_id = None
                /\ Cardinality(WithId(db.invoice, resp.body._id)) = 1
        /\ \A w \in Workers :
             (workers[w].pc \in InvoicePcs /\ ~Has(workers[w].req, "client_id"))
               => ~workers[w].looked)
  /\ [][\A w \in Workers :
          (workers[w].pc = "invoice_insert" /\ workers'[w].pc = "invoice_fetch")
            => AddsOne("invoice")]_vars

\* C5, witness: such a request is being answered 201 while no client is stored.
C5_Witness ==
  /\ resp.op = "POST /invoices"
  /\ ~Has(resp.req, "client_id")
  /\ resp.status = 201
  /\ db.client = <<>>

\* C6: a record of a listing response that has the identifier of a record
\* a POST response returned equals that record, field by field; and a stored
\* document never changes or disappears.
C6_RoundTripStable ==
  /\ []((resp.op \in Listings /\ resp.status = 200)
          => \A i \in 1..Len(resp.body) : \A p \in posted :
               p._id = resp.body[i]._id => p = resp.body[i])
  /\ [][\A name \in DOMAIN db :
          /\ Len(db'[name]) >= Len(db[name])
          /\ SubSeq(db'[name], 1, Len(db[name])) = db[name]]_vars

\* C6, witness: a listing of invoices holds a record a POST response returned,
\* and clients were created too.
C6_Witness ==
  /\ resp.op = "GET /invoices"
  /\ resp.status = 200
  /\ \E i \in 1..Len(resp.body) : resp.body[i] \in posted
  /\ \E p \in posted : "name" \in DOMAIN p

NonEmptyText(x) == IsStr(x) /\ x.v # <<>>

\* The constraints of a GET /invoices request that a document satisfies
\* when each non-empty parameter equals the document's field.
Wanted(doc, q) ==
  /\ NonEmptyText(q.status) => doc.status = q.status
  /\ NonEmptyText(q.client_id) => doc.client_id = q.client_id

\* The number of stored documents a listing request matches.
MatchCount(r) ==
  IF r.op = "GET /clients" THEN Len(db.client)
  ELSE Cardinality({i \in 1..Len(db.invoice) : Wanted(db.invoice[i], r.req)})

\* C7: a GET /clients or GET /invoices whose limit is omitted or in 1..200
\* is answered 200 with exactly min(L, number of matching stored records)
\* records, L being the limit, 50 when omitted.
C7_LimitCaps ==
  (/\ resp.op \in Listings
   /\ \/ resp.req.limit = None
      \/ resp.req.limit.v \in 1..200)
    => /\ resp.status = 200
       /\ Len(resp.body) =
            Min(IF resp.req.limit = None THEN 50 ELSE resp.req.limit.v,
                MatchCount(resp))

\* C7, witness: GET /clients?limit=1 is being answered with one record while
\* two or more clients are stored.
C7_Witness ==
  /\ resp.op = "GET /clients"
  /\ resp.req.limit = Num(1)
  /\ Len(db.client) >= 2
  /\ Len(resp.body) = 1

\* C8, as claimed: every record of a GET /invoices response has the status
\* the request supplies and the client_id the request supplies.
C8_SuppliedParametersConstrain ==
  (resp.op = "GET /invoices" /\ resp.status = 200)
    => \A i \in 1..Len(resp.body) :
         /\ resp.req.status # None => resp.body[i].status = resp.req.status
         /\ resp.req.client_id # None
              => resp.body[i].client_id = resp.req.client_id

\* C8, amended: every record of a GET /invoices response is a stored invoice
\* that has the status the request supplies, when it supplies a non-empty
\* one, and the client_id the request supplies, when it supplies a non-empty
\* one; a parameter that is omitted or empty constrains nothing.
C8_NonEmptyParametersConstrain ==
  (resp.op = "GET /invoices" /\ resp.status = 200)
    => /\ \A i \in 1..Len(resp.body) :
            /\ WithId(db.invoice, resp.body[i]._id) # {}
            /\ Wanted(resp.body[i], resp.req)
       /\ (~NonEmptyText(resp.req.status) /\ ~NonEmptyText(resp.req.client_id))
            => Len(resp.body) = Min(LimitOf(resp.req.limit), Len(db.invoice))

\* C8, witness: a request supplying both parameters is being answered with
\* a record while an invoice that does not match is stored.
C8_Witness ==
  /\ resp.op = "GET /invoices"
  /\ resp.status = 200
  /\ NonEmptyText(resp.req.status)
  /\ NonEmptyText(resp.req.client_id)
  /\ Len(resp.body) > 0
  /\ Len(db.invoice) > Len(resp.body)

LowerText(x) == Str([i \in 1..Len(x.v) |-> Lower(x.v[i])])

=============================================================================
